---- MODULE Spec2Model ----
(***************************************************************************)
(* Model of onediff_comfy_nodes/utils/diffusers_quant_utils.py: dotted     *)
(* path resolution on a module tree, the calibration file loader, the      *)
(* module search, the attention q/k/v fusion and the quantization pass.    *)
(*                                                                         *)
(* Strings are sequences of one-character strings, so that split, isdigit, *)
(* int and float act on characters as they do in Python.                   *)
(***************************************************************************)
EXTENDS Integers, Sequences, FiniteSets, TLC

VARIABLES
    heap,            \* the module objects: heap[i] is the object with id i
    pc,              \* position of the running call
    op,              \* the call being made: its inputs and its outcome
    pre,             \* the heap as it was when the call was entered
    calibrate_info,  \* the ordered dict built by _load_calibrate_info
    env              \* os.environ["ONEFLOW_FUSE_QUANT_TO_MATMUL"]

vars == <<heap, pc, op, pre, calibrate_info, env>>

----------------------------------------------------------------------------
\* Bounds of the model.

MaxNodes == 3       \* objects in a tree of the path resolver's inputs
MaxSegs == 2        \* segments of a dotted path given to the path resolver
MaxLines == 1       \* lines of a calibration file
MaxHeads == 2       \* heads of an attention block given to _rewrite_attention
MaxDimHead == 2     \* its per-head dimension
MaxIn == 2          \* its projections' in_features

----------------------------------------------------------------------------
\* Python values.

None == 0           \* the id of None; objects have ids 1, 2, ...
Root == 1           \* the id of the tree's root

Digits == <<"0", "1", "2", "3", "4", "5", "6", "7", "8", "9">>

IsDigitChar(c) == \E i \in 1..10 : Digits[i] = c

DigitVal(c) == (CHOOSE i \in 1..10 : Digits[i] = c) - 1

\* str.isdigit(): non-empty and all characters are digits
isdigit(s) == Len(s) > 0 /\ \A i \in 1..Len(s) : IsDigitChar(s[i])

\* int(s) of a string of decimal digits
RECURSIVE int(_)
int(s) ==
    IF Len(s) = 0 THEN 0
    ELSE 10 * int(SubSeq(s, 1, Len(s) - 1)) + DigitVal(s[Len(s)])

\* str(n) of a natural number
RECURSIVE str(_)
str(n) == IF n < 10 THEN <<Digits[n + 1]>> ELSE str(n \div 10) \o <<Digits[(n % 10) + 1]>>

\* s.split(sep) for a one-character separator: always at least one part
RECURSIVE split(_, _)
split(s, sep) ==
    IF \E i \in 1..Len(s) : s[i] = sep
    THEN LET i == CHOOSE j \in 1..Len(s) : s[j] = sep /\ \A k \in 1..(j - 1) : s[k] # sep
         IN  <<SubSeq(s, 1, i - 1)>> \o split(SubSeq(s, i + 1, Len(s)), sep)
    ELSE <<s>>

\* sep.join(parts)
RECURSIVE join(_, _)
join(parts, sep) ==
    IF Len(parts) = 0 THEN <<>>
    ELSE IF Len(parts) = 1 THEN parts[1]
    ELSE parts[1] \o <<sep>> \o join(Tail(parts), sep)

----------------------------------------------------------------------------
\* Module objects.  kids is the ordered dict of child modules, a sequence of
\* <<name, id>> pairs; a ModuleList names its children "0", "1", ...

NoTensor == [shape |-> <<>>, data |-> <<>>]

Obj(cls, kids) ==
    [cls |-> cls, kids |-> kids,
     in_features |-> 0, out_features |-> 0, heads |-> 0,
     weight |-> NoTensor, dtype |-> "", requires_grad |-> TRUE, device |-> "cpu",
     has_bias |-> FALSE, bias |-> NoTensor,
     calibrate |-> <<>>, nbits |-> 0, name |-> <<>>,
     fake_quant |-> FALSE, static |-> FALSE, wraps |-> None,
     scale |-> <<>>, flag_seen |-> ""]

HasKid(o, name) == \E i \in 1..Len(o.kids) : o.kids[i][1] = name

KidIndex(o, name) == CHOOSE i \in 1..Len(o.kids) : o.kids[i][1] = name

Indexable(o) == o.cls = "ModuleList"

Ok(v) == [exc |-> "", val |-> v]
Raise(e) == [exc |-> e, val |-> None]

\* getattr(cur, part) for a child module's name
getattr(h, cur, part) ==
    IF cur = None THEN Raise("AttributeError")
    ELSE IF HasKid(h[cur], part) THEN Ok(h[cur].kids[KidIndex(h[cur], part)][2])
    ELSE Raise("AttributeError")

\* cur[n], counting from 1
getitem_from_1(h, cur, n) ==
    IF cur = None \/ ~Indexable(h[cur]) THEN Raise("TypeError")
    ELSE IF n >= 1 /\ n <= Len(h[cur].kids) THEN Ok(h[cur].kids[n][2])
    ELSE Raise("IndexError")

\* cur[n]
getitem(h, cur, n) ==
    IF cur = None \/ ~Indexable(h[cur]) THEN Raise("TypeError")
    ELSE IF n < Len(h[cur].kids) THEN Ok(h[cur].kids[n + 1][2])
    ELSE Raise("IndexError")

\* setattr(cur, part, v): rebinds the name, or binds a new one
setattr(h, cur, part, v) ==
    IF HasKid(h[cur], part)
    THEN [h EXCEPT ![cur].kids[KidIndex(h[cur], part)] = <<part, v>>]
    ELSE [h EXCEPT ![cur].kids = Append(@, <<part, v>>)]

\* cur[n] = v on a ModuleList
setitem(h, cur, n, v) == [h EXCEPT ![cur].kids[n + 1] = <<str(n), v>>]

\* the except clause of both resolvers
NotFound(e) == IF e \in {"IndexError", "AttributeError"} THEN "ModuleNotFoundError" ELSE e

RECURSIVE walk(_, _, _)
walk(h, cur, parts) ==
    IF Len(parts) = 0 THEN Ok(cur)
    ELSE LET part == parts[1]
             r == IF isdigit(part) THEN getitem(h, cur, int(part))
                  ELSE getattr(h, cur, part)
         IN  IF r.exc # "" THEN Raise(NotFound(r.exc))
             ELSE walk(h, r.val, Tail(parts))

get_sub_module(h, module, sub_module_name) ==
    walk(h, module, split(sub_module_name, "."))

\* the last iteration of modify_sub_module's loop: the write
modify_last(h, cur, part, v) ==
    IF isdigit(part)
    THEN IF cur = None \/ ~Indexable(h[cur]) THEN [exc |-> "TypeError", heap |-> h]
         ELSE IF int(part) < Len(h[cur].kids)
              THEN [exc |-> "", heap |-> setitem(h, cur, int(part), v)]
              ELSE [exc |-> "ModuleNotFoundError", heap |-> h]
    ELSE IF cur = None THEN [exc |-> "ModuleNotFoundError", heap |-> h]
         ELSE [exc |-> "", heap |-> setattr(h, cur, part, v)]

\* the loop with a read where the last iteration writes
modify_sub_module_read_only(h, module, sub_module_name, new_value) ==
    [exc |-> get_sub_module(h, module, sub_module_name).exc, heap |-> h]

modify_sub_module(h, module, sub_module_name, new_value) ==
    LET parts == split(sub_module_name, ".")
        r == walk(h, module, SubSeq(parts, 1, Len(parts) - 1))
    IN  IF r.exc # "" THEN [exc |-> r.exc, heap |-> h]
        ELSE modify_last(h, r.val, parts[Len(parts)], new_value)

----------------------------------------------------------------------------
\* Inputs of the path resolver: trees of at most MaxNodes objects and dotted
\* paths of at most MaxSegs segments.

Names == {<<"a">>, <<"b">>}

SegTokens == {<<"a">>, <<"b">>, <<"0">>, <<"1">>, <<"0", "1">>, <<>>}

RECURSIVE TokenSeqs(_)
TokenSeqs(n) ==
    IF n = 0 THEN {<<>>}
    ELSE {<<t>> \o s : t \in SegTokens, s \in TokenSeqs(n - 1)}

Paths == {join(s, ".") : s \in UNION {TokenSeqs(n) : n \in 1..MaxSegs}}

\* the ids in S in increasing order
RECURSIVE Sorted(_)
Sorted(S) ==
    IF S = {} THEN <<>>
    ELSE LET m == CHOOSE x \in S : \A y \in S : x <= y
         IN  <<m>> \o Sorted(S \ {m})

\* the tree with parent function par, classes cls and child names nm; a child of
\* class "None" is a slot that holds None
TreeOf(n, par, cls, nm) ==
    [i \in 1..n |->
        LET ch == Sorted({j \in 2..n : par[j] = i})
        IN  Obj(IF cls[i] = "None" THEN "Module" ELSE cls[i],
                [k \in 1..Len(ch) |->
                    <<IF cls[i] = "ModuleList" THEN str(k - 1) ELSE nm[ch[k]],
                      IF cls[ch[k]] = "None" THEN None ELSE ch[k]>>])]

Trees ==
    UNION {
      {TreeOf(n, par, cls, nm) :
         par \in {f \in [2..n -> 1..n] : \A j \in 2..n : f[j] < j},
         cls \in [1..n -> {"Module", "ModuleList", "Linear", "None"}],
         nm \in [2..n -> Names]}
      : n \in 1..MaxNodes}

\* a module tree: only containers have children, None sits in a named slot,
\* sibling names differ
WellFormed(h) ==
    /\ \A i \in 1..Len(h) :
         /\ h[i].cls = "Linear" => h[i].kids = <<>>
         /\ \A k, l \in 1..Len(h[i].kids) :
              /\ k # l => h[i].kids[k][1] # h[i].kids[l][1]
              /\ h[i].kids[k][2] = None => h[i].cls = "Module"

\* the fields that tell trees apart, for the frame conditions
Linear(in_features, out_features) ==
    [Obj("Linear", <<>>) EXCEPT !.in_features = in_features,
                                !.out_features = out_features]

NoOp == [kind |-> "", path |-> <<>>, exc |-> "", val |-> None, new |-> None,
         after |-> Ok(None)]

InitPath ==
    /\ heap \in {h \in Trees : WellFormed(h)}
    /\ pc = "idle"
    /\ op = NoOp
    /\ pre = heap
    /\ calibrate_info = <<>>
    /\ env = "0"

\* a call of get_sub_module(root, p)
Get(p) ==
    /\ pc = "idle"
    /\ LET r == get_sub_module(heap, Root, p)
       IN  op' = [NoOp EXCEPT !.kind = "get", !.path = p, !.exc = r.exc, !.val = r.val]
    /\ pc' = "done"
    /\ UNCHANGED <<heap, pre, calibrate_info, env>>

\* a call of modify_sub_module(root, p, x) with a new module x, then
\* get_sub_module(root, p)
Modify(p) ==
    /\ pc = "idle"
    /\ LET x == Len(heap) + 1
           h0 == Append(heap, Linear(1, 1))
           r == modify_sub_module(h0, Root, p, x)
       IN  /\ heap' = r.heap
           /\ pre' = h0
           /\ op' = [NoOp EXCEPT !.kind = "modify", !.path = p, !.exc = r.exc,
                                 !.new = x,
                                 !.after = get_sub_module(r.heap, Root, p)]
    /\ pc' = "done"
    /\ UNCHANGED <<calibrate_info, env>>

NextPath ==
    \/ \E p \in Paths : Get(p)
    \/ \E p \in Paths : Modify(p)

SpecPath == InitPath /\ [][NextPath]_vars

----------------------------------------------------------------------------
\* The path resolver's claims.

\* Manual traversal: the <<path, object>> pairs met when walking down from
\* object cur through at most d child slots, a ModuleList's children by
\* position and any other object's by name.  An index is written in decimal,
\* after any of the prefixes in pads.
RECURSIVE Reach(_, _, _, _)
Reach(h, cur, d, pads) ==
    IF d = 0 \/ cur = None THEN {}
    ELSE UNION {
           LET kid == h[cur].kids[k][2]
               segs == IF Indexable(h[cur]) THEN {pad \o str(k - 1) : pad \in pads}
                       ELSE {h[cur].kids[k][1]}
           IN  {<<seg, kid>> : seg \in segs}
               \cup {<<seg \o <<".">> \o r[1], r[2]>> :
                       seg \in segs, r \in Reach(h, kid, d - 1, pads)}
           : k \in 1..Len(h[cur].kids)}

\* the paths of a tree as named_modules writes them
ValidPaths(h) == Reach(h, Root, Len(h), {<<>>})

\* the same, and with each index also written with a leading zero
PaddedPaths(h) == Reach(h, Root, Len(h), {<<>>, <<"0">>})

\* C1: for every valid dotted path p of the tree, get_sub_module(tree, p)
\* returns the object manual traversal reaches, and after
\* modify_sub_module(tree, p, x) get_sub_module(tree, p) returns x.
C1_Resolve ==
    pc = "done" =>
      \A r \in PaddedPaths(pre) :
        r[1] = op.path =>
          /\ op.kind = "get" => op.exc = "" /\ op.val = r[2]
          /\ op.kind = "modify" => op.exc = "" /\ op.after = Ok(op.new)

\* C1's case: a two-segment path through a ModuleList is rebound
C1_Witness ==
    /\ pc = "done"
    /\ op.kind = "modify"
    /\ op.path = <<"a", ".", "0">>
    /\ \E r \in PaddedPaths(pre) : r[1] = op.path /\ r[2] # None
    /\ op.after = Ok(op.new)

\* C10: modify_sub_module raises NotFound exactly when get_sub_module does on
\* the same tree and path, and then leaves the tree unchanged.
C10_SameNotFound ==
    (pc = "done" /\ op.kind = "modify") =>
      /\ (op.exc = "ModuleNotFoundError")
           <=> (get_sub_module(pre, Root, op.path).exc = "ModuleNotFoundError")
      /\ op.exc = "ModuleNotFoundError" => heap = pre

----------------------------------------------------------------------------
\* _load_calibrate_info.  A float is kept as <<n, f>>, the number n / 10^f
\* with f as small as possible, so that "1", "1." and "1.0" are one value.

Whitespace == {" ", "\n"}

\* s.strip()
RECURSIVE lstrip(_)
lstrip(s) == IF Len(s) > 0 /\ s[1] \in Whitespace THEN lstrip(Tail(s)) ELSE s

RECURSIVE rstrip(_)
rstrip(s) ==
    IF Len(s) > 0 /\ s[Len(s)] \in Whitespace THEN rstrip(SubSeq(s, 1, Len(s) - 1)) ELSE s

\* the line as read, its line end kept
not_stripped(s) == s

strip(s) == rstrip(lstrip(s))

Unsigned(s) == IF Len(s) > 0 /\ s[1] \in {"-", "+"} THEN Tail(s) ELSE s

Negative(s) == Len(s) > 0 /\ s[1] = "-"

\* whether int(s) parses: an optional sign and decimal digits
int_ok(s) == isdigit(Unsigned(s))

int_val(s) == IF Negative(s) THEN 0 - int(Unsigned(s)) ELSE int(Unsigned(s))

\* whether float(s) parses: an optional sign, digits with at most one point,
\* and at least one digit
float_ok(s) ==
    LET u == Unsigned(s)
        parts == split(u, ".")
    IN  /\ Len(parts) <= 2
        /\ \A i \in 1..Len(parts) : parts[i] = <<>> \/ isdigit(parts[i])
        /\ \E i \in 1..Len(parts) : parts[i] # <<>>

RECURSIVE Normal(_, _)
Normal(n, f) == IF f > 0 /\ n % 10 = 0 THEN Normal(n \div 10, f - 1) ELSE <<n, f>>

float_val(s) ==
    LET u == Unsigned(s)
        parts == split(u, ".")
        frac == IF Len(parts) = 2 THEN parts[2] ELSE <<>>
        v == Normal(int(parts[1] \o frac), Len(frac))
    IN  IF Negative(s) THEN <<0 - v[1], v[2]>> ELSE v

\* dict[key] = value on an ordered dict
dict_set(d, key, value) ==
    IF \E i \in 1..Len(d) : d[i][1] = key
    THEN [i \in 1..Len(d) |-> IF d[i][1] = key THEN <<key, value>> ELSE d[i]]
    ELSE Append(d, <<key, value>>)

dict_has(d, key) == \E i \in 1..Len(d) : d[i][1] = key

dict_get(d, key) == d[CHOOSE i \in 1..Len(d) : d[i][1] = key][2]

\* the body of the loop over f.readlines(), for one line
load_line(info, raw) ==
    LET line == strip(raw)
        items == split(line, " ")
        chans == split(items[4], ",")
    IN  IF Len(items) < 2 THEN [exc |-> "IndexError", info |-> info]
        ELSE IF ~float_ok(items[2]) THEN [exc |-> "ValueError", info |-> info]
        ELSE IF Len(items) < 3 THEN [exc |-> "IndexError", info |-> info]
        ELSE IF ~int_ok(items[3]) THEN [exc |-> "ValueError", info |-> info]
        ELSE IF Len(items) < 4 THEN [exc |-> "IndexError", info |-> info]
        ELSE IF \E i \in 1..Len(chans) : ~float_ok(chans[i])
             THEN [exc |-> "ValueError", info |-> info]
        ELSE [exc |-> "",
              info |-> dict_set(info, items[1],
                                <<float_val(items[2]), int_val(items[3]),
                                  [i \in 1..Len(chans) |-> float_val(chans[i])]>>)]

\* Inputs: a line is fields joined by single spaces, with or without blanks
\* around it and its line end.
FieldTokens == {<<"x">>, <<"1">>, <<"1", ".", "5", "0">>, <<"1", ",", "2">>, <<>>}

RECURSIVE FieldSeqs(_)
FieldSeqs(n) ==
    IF n = 0 THEN {<<>>}
    ELSE {<<t>> \o s : t \in FieldTokens, s \in FieldSeqs(n - 1)}

\* the first and the last field of a line that is not empty are not empty:
\* blanks around a line are its padding
LineFields ==
    {<<<<>>>>} \cup
    {s \in UNION {FieldSeqs(n) : n \in 1..4} : s[1] # <<>> /\ s[Len(s)] # <<>>}

Pads == {<<<<>>, <<>>>>, <<<<>>, <<"\n">>>>, <<<<" ">>, <<" ", "\n">>>>}

InitCal ==
    /\ heap = <<>>
    /\ pc = "loading"
    /\ op = [fields |-> <<>>, raw |-> <<>>, exc |-> "", lines |-> 0]
    /\ pre = <<>>
    /\ calibrate_info = <<>>
    /\ env = "0"

\* one iteration of the loop, on the file's next line
LoadLine(fields, pad) ==
    /\ pc = "loading"
    /\ op.lines < MaxLines
    /\ LET raw == pad[1] \o join(fields, " ") \o pad[2]
           r == load_line(calibrate_info, raw)
       IN  /\ op' = [fields |-> fields, raw |-> raw, exc |-> r.exc,
                     lines |-> op.lines + 1]
           /\ calibrate_info' = r.info
           /\ pc' = IF r.exc = "" THEN "loading" ELSE "raised"
    /\ UNCHANGED <<heap, pre, env>>

\* the file has no more lines: return calibrate_info
EndOfFile ==
    /\ pc = "loading"
    /\ pc' = "loaded"
    /\ UNCHANGED <<heap, op, pre, calibrate_info, env>>

NextCal ==
    \/ \E fields \in LineFields, pad \in Pads : LoadLine(fields, pad)
    \/ EndOfFile

SpecCal == InitCal /\ [][NextCal]_vars

\* What the file format says of a field, written out token by token.
IsFloatToken(t) == t \in {<<"1">>, <<"1", ".", "5", "0">>}

IsIntToken(t) == t = <<"1">>

FloatOfToken(t) == IF t = <<"1">> THEN <<1, 0>> ELSE <<15, 1>>

IsChannelsToken(t) == t \in {<<"1">>, <<"1", ".", "5", "0">>, <<"1", ",", "2">>}

ChannelsOfToken(t) ==
    IF t = <<"1">> THEN <<<<1, 0>>>>
    ELSE IF t = <<"1", ",", "2">> THEN <<<<1, 0>>, <<2, 0>>>>
    ELSE <<<<15, 1>>>>

Malformed(fields) ==
    \/ Len(fields) < 4
    \/ ~IsFloatToken(fields[2])
    \/ ~IsIntToken(fields[3])
    \/ ~IsChannelsToken(fields[4])

\* C7: a line with fewer than 4 space-separated fields, or with a scale, bit
\* flag or channel scale that is no number, makes _load_calibrate_info raise
\* (IndexError or ValueError); a well-formed line maps its first field to
\* [float scale, int bit flag, list of float channel scales].
C7_Load ==
    op.lines > 0 =>
      /\ Malformed(op.fields) <=> op.exc \in {"IndexError", "ValueError"}
      /\ Malformed(op.fields) <=> pc = "raised"
      /\ ~Malformed(op.fields) =>
           /\ dict_has(calibrate_info, op.fields[1])
           /\ dict_get(calibrate_info, op.fields[1])
                = <<FloatOfToken(op.fields[2]), 1, ChannelsOfToken(op.fields[4])>>

\* C7's cases: a line of 3 fields raises, and a well-formed line is loaded
C7_Witness3 ==
    /\ pc = "raised"
    /\ op.fields = <<<<"x">>, <<"1">>, <<"1">>>>

C7_Witness ==
    /\ pc = "loaded"
    /\ op.fields = <<<<"x">>, <<"1", ".", "5", "0">>, <<"1">>, <<"1", ",", "2">>>>
    /\ calibrate_info = <<<<<<"x">>, <<<<15, 1>>, 1, <<<<1, 0>>, <<2, 0>>>>>>>>>>

----------------------------------------------------------------------------
\* Tensors: a shape and the elements in row-major order.  A failed tensor
\* operation (torch raises RuntimeError) yields BadTensor, and so does every
\* operation on it.

BadTensor == [shape |-> <<0 - 1>>, data |-> <<>>]

RECURSIVE numel(_)
numel(shape) == IF Len(shape) = 0 THEN 1 ELSE shape[1] * numel(Tail(shape))

\* t.permute(1, 0) of a matrix
permute_1_0(t) ==
    IF t = BadTensor \/ Len(t.shape) # 2 THEN BadTensor
    ELSE LET r == t.shape[1]
             c == t.shape[2]
         IN  [shape |-> <<c, r>>,
              data |-> [n \in 1..(r * c) |->
                          LET j == (n - 1) \div r
                              i == (n - 1) % r
                          IN  t.data[i * c + j + 1]]]

\* t.reshape(shape): the same elements in the same order; a leading -1 is
\* inferred
reshape(t, shape) ==
    IF t = BadTensor THEN BadTensor
    ELSE LET n == Len(t.data)
             rest == IF shape[1] = 0 - 1 THEN numel(Tail(shape)) ELSE 1
             full == IF shape[1] = 0 - 1
                     THEN IF rest > 0 /\ n % rest = 0
                          THEN <<n \div rest>> \o Tail(shape) ELSE <<>>
                     ELSE shape
         IN  IF full = <<>> \/ numel(full) # n THEN BadTensor
             ELSE [shape |-> full, data |-> t.data]

Leading(shape) == SubSeq(shape, 1, Len(shape) - 1)

\* torch.cat([a, b, c], dim=last)
cat_last(a, b, c) ==
    IF \/ BadTensor \in {a, b, c}
       \/ Leading(a.shape) # Leading(b.shape)
       \/ Leading(a.shape) # Leading(c.shape)
    THEN BadTensor
    ELSE LET rows == numel(Leading(a.shape))
             la == a.shape[Len(a.shape)]
             lb == b.shape[Len(b.shape)]
             lc == c.shape[Len(c.shape)]
             w == la + lb + lc
         IN  [shape |-> Leading(a.shape) \o <<w>>,
              data |-> [n \in 1..(rows * w) |->
                          LET r == (n - 1) \div w
                              k == (n - 1) % w
                          IN  IF k < la THEN a.data[r * la + k + 1]
                              ELSE IF k < la + lb THEN b.data[r * lb + (k - la) + 1]
                              ELSE c.data[r * lc + (k - la - lb) + 1]]]

\* the [all q, all k, all v] layout: torch.cat([a, b, c], dim=0)
cat_first(a, b, c) ==
    IF BadTensor \in {a, b, c} THEN BadTensor
    ELSE [shape |-> <<a.shape[1] + b.shape[1] + c.shape[1]>> \o Tail(a.shape),
          data |-> a.data \o b.data \o c.data]

Vector(list) == [shape |-> <<Len(list)>>, data |-> list]

----------------------------------------------------------------------------
\* Attention blocks and their projections.

TO_Q == <<"t", "o", "_", "q">>
TO_K == <<"t", "o", "_", "k">>
TO_V == <<"t", "o", "_", "v">>
TO_QKV == <<"t", "o", "_", "q", "k", "v">>

QuantClasses == {"StaticQuantLinearModule", "DynamicQuantLinearModule"}

\* the classes with in_features, out_features, weight and bias
LinearLike == {"Linear", "ComfyLinear"} \cup QuantClasses

\* attn.<name> as a projection: the id, or None when the attribute is None or
\* the object has none of a projection's attributes
Proj(h, attn, name) ==
    LET r == getattr(h, attn, name)
    IN  IF r.exc = "" /\ r.val # None /\ h[r.val].cls \in LinearLike THEN r.val ELSE None

_can_use_flash_attn(h, attn) ==
    LET q == Proj(h, attn, TO_Q)
        k == Proj(h, attn, TO_K)
        v == Proj(h, attn, TO_V)
    IN  IF q = None THEN "AttributeError"
        ELSE IF h[attn].heads = 0 THEN "ZeroDivisionError"
        ELSE LET dim_head == h[q].out_features \div h[attn].heads
             IN  IF dim_head # 40 /\ dim_head # 64 THEN "False"
                 ELSE IF getattr(h, attn, TO_K).val = None
                         \/ getattr(h, attn, TO_V).val = None THEN "False"
                 ELSE IF k = None \/ v = None THEN "AttributeError"
                 ELSE IF h[q].has_bias \/ h[k].has_bias \/ h[v].has_bias THEN "False"
                 ELSE IF \/ h[q].in_features # h[k].in_features
                         \/ h[q].in_features # h[v].in_features THEN "False"
                 ELSE IF ~(h[q].dtype = h[k].dtype /\ h[q].dtype = h[v].dtype)
                      THEN "False"
                 ELSE "True"

\* nn.Linear(in_features, out_features, bias): the weight is set by the caller
NewLinear(in_features, out_features, bias) ==
    [Obj("Linear", <<>>) EXCEPT
        !.in_features = in_features, !.out_features = out_features,
        !.has_bias = bias, !.dtype = "float32",
        !.weight = [shape |-> <<out_features, in_features>>,
                    data |-> [n \in 1..(out_features * in_features) |-> 0]],
        !.bias = IF bias THEN Vector([n \in 1..out_features |-> 0]) ELSE NoTensor]

\* cls(module, nbits, calibrate, name) of a quantized class, called while the
\* flag is flag: what this file reads of the result, and what it was given
NewQuant(cls, module, nbits, calibrate, name, wraps, flag) ==
    [module EXCEPT !.cls = cls, !.nbits = nbits, !.calibrate = calibrate,
                   !.name = name, !.wraps = wraps, !.flag_seen = flag]

\* the three tensors of the projections one after the other
merge_bad(a, b, c, heads, dim_head) == cat_first(a, b, c)

\* the three tensors of the projections, head by head:
\* [q_head0, k_head0, v_head0, q_head1, ...]
merge(a, b, c, heads, dim_head) ==
    cat_last(reshape(a, <<0 - 1, heads, dim_head>>),
             reshape(b, <<0 - 1, heads, dim_head>>),
             reshape(c, <<0 - 1, heads, dim_head>>))

qkv_weight(h, q, k, v, heads, dim_head) ==
    permute_1_0(
        reshape(merge(permute_1_0(h[q].weight), permute_1_0(h[k].weight),
                      permute_1_0(h[v].weight), heads, dim_head),
                <<0 - 1, h[q].out_features * 3>>))

\* the scoped override's last line: os.environ[...] = old_env
restore_env(old_env) ==
    IF old_env = "unset" THEN [exc |-> "TypeError", env |-> "0"]
    ELSE [exc |-> "", env |-> old_env]

\* _rewrite_attention(attn) with the flag at flag; ctor_raises says whether the
\* quantized class's constructor raises.  The result is the heap, the flag and
\* the exception the call ends with.
_rewrite_attention(h, attn, flag, ctor_raises) ==
    LET q == Proj(h, attn, TO_Q)
        k == Proj(h, attn, TO_K)
        v == Proj(h, attn, TO_V)
        End(h1, e, exc) ==
            [heap |-> h1, env |-> e, exc |-> exc, rewrapped |-> FALSE, seen |-> ""]
    IN
    IF q = None THEN End(h, flag, "AttributeError")
    ELSE IF h[attn].heads = 0 THEN End(h, flag, "ZeroDivisionError")
    ELSE
    LET heads == h[attn].heads
        dim_head == h[q].out_features \div heads
        has_bias == h[q].has_bias
        n == Len(h) + 1
        h1 == setattr(Append(h, [NewLinear(h[q].in_features, h[q].out_features * 3,
                                           has_bias)
                                 EXCEPT !.requires_grad = FALSE]),
                      attn, TO_QKV, n)
    IN
    IF k = None \/ v = None THEN End(h1, flag, "AttributeError")
    ELSE
    LET w == qkv_weight(h, q, k, v, heads, dim_head)
        h2 == [h1 EXCEPT ![n].weight = w, ![n].dtype = h[q].dtype]
    IN
    IF w = BadTensor THEN End(h1, flag, "RuntimeError")
    ELSE
    LET b == reshape(cat_last(reshape(h[q].bias, <<heads, dim_head>>),
                              reshape(h[k].bias, <<heads, dim_head>>),
                              reshape(h[v].bias, <<heads, dim_head>>)),
                     <<h[q].out_features * 3>>)
        h3 == IF has_bias THEN [h2 EXCEPT ![n].bias = b] ELSE h2
    IN
    IF has_bias /\ (~h[k].has_bias \/ ~h[v].has_bias) THEN End(h2, flag, "AttributeError")
    ELSE IF has_bias /\ b = BadTensor THEN End(h2, flag, "RuntimeError")
    ELSE IF h[q].cls \notin QuantClasses THEN End(h3, flag, "")
    ELSE IF h[k].cls \notin QuantClasses \/ h[v].cls \notin QuantClasses
         THEN End(h3, flag, "AttributeError")
    ELSE
    LET weight_scale ==
            reshape(cat_last(reshape(Vector(h[q].calibrate[3]), <<heads, dim_head>>),
                             reshape(Vector(h[k].calibrate[3]), <<heads, dim_head>>),
                             reshape(Vector(h[v].calibrate[3]), <<heads, dim_head>>)),
                    <<h[q].out_features * 3>>)
        calibrate == <<h[q].calibrate[1], h[q].calibrate[2], weight_scale.data>>
        old_env == flag
        env1 == "0"
        m == n + 1
        h4 == [setattr(Append(h3, NewQuant(h[q].cls, h3[n], h[q].nbits, calibrate,
                                           h[q].name, n, env1)),
                       attn, TO_QKV, m)
               EXCEPT ![attn].scale = <<dim_head, "** -0.5">>]
        r == restore_env(old_env)
    IN
    IF weight_scale = BadTensor THEN End(h3, flag, "RuntimeError")
    ELSE IF ctor_raises
         THEN [heap |-> h3, env |-> env1, exc |-> "ConstructorError", rewrapped |-> TRUE,
               seen |-> env1]
    ELSE [heap |-> h4, env |-> r.env, exc |-> r.exc, rewrapped |-> TRUE, seen |-> env1]

----------------------------------------------------------------------------
\* Calls of _rewrite_attention on one attention block.

\* a projection with out_features x in_features weight base+1, base+2, ...
Projection(cls, in_features, out_features, bias, dtype, base) ==
    [Obj(cls, <<>>) EXCEPT
        !.in_features = in_features, !.out_features = out_features,
        !.dtype = dtype, !.has_bias = bias,
        !.weight = [shape |-> <<out_features, in_features>>,
                    data |-> [n \in 1..(out_features * in_features) |-> base + n]],
        !.bias = IF bias THEN Vector([n \in 1..out_features |-> base + 500 + n])
                 ELSE NoTensor,
        !.calibrate = IF cls \in QuantClasses
                      THEN <<<<1, 0>>, 8, [n \in 1..out_features |-> <<base + n, 1>>]>>
                      ELSE <<>>,
        !.nbits = IF cls \in QuantClasses THEN 8 ELSE 0,
        !.name = IF cls \in QuantClasses THEN <<"q">> ELSE <<>>]

Attention(heads, kids) == [Obj("CrossAttentionPytorch", kids) EXCEPT !.heads = heads]

\* the block is object 1, its projections 2, 3 and 4
AttnHeap(heads, dim_head, in_features, qcls, kcls, bias, k_none) ==
    <<Attention(heads, <<<<TO_Q, 2>>, <<TO_K, IF k_none THEN None ELSE 3>>, <<TO_V, 4>>>>),
      Projection(qcls, in_features, heads * dim_head, bias, "int8", 1000),
      Projection(kcls, in_features, heads * dim_head, bias, "int8", 2000),
      Projection(qcls, in_features, heads * dim_head, bias, "int8", 3000)>>

FlagValues == {"0", "1", "unset"}

InitFuse ==
    /\ \E heads \in 1..MaxHeads, dim_head \in 1..MaxDimHead, in_features \in 1..MaxIn,
          qcls \in {"Linear", "DynamicQuantLinearModule"},
          kcls \in {"Linear", "DynamicQuantLinearModule"},
          bias \in BOOLEAN, k_none \in BOOLEAN :
         heap = AttnHeap(heads, dim_head, in_features, qcls, kcls, bias, k_none)
    /\ pc = "idle"
    /\ env \in FlagValues
    /\ op = [exc |-> "", rewrapped |-> FALSE, seen |-> "", env_before |-> env]
    /\ pre = heap
    /\ calibrate_info = <<>>

Rewrite(ctor_raises) ==
    /\ pc = "idle"
    /\ LET r == _rewrite_attention(heap, 1, env, ctor_raises)
       IN  /\ heap' = r.heap
           /\ env' = r.env
           /\ op' = [exc |-> r.exc, rewrapped |-> r.rewrapped, seen |-> r.seen,
                     env_before |-> env]
    /\ pc' = "done"
    /\ UNCHANGED <<pre, calibrate_info>>

NextFuse == \E ctor_raises \in BOOLEAN : Rewrite(ctor_raises)

SpecFuse == InitFuse /\ [][NextFuse]_vars

\* row i (from 0) of a matrix
Row(t, i) == SubSeq(t.data, i * t.shape[2] + 1, (i + 1) * t.shape[2])

\* C9: for a block with H heads of dimension d, the to_qkv that
\* _rewrite_attention installs has a weight of 3*H*d rows, and for every head h
\* and j < d its row 3*d*h + j is to_q's row d*h + j, its row 3*d*h + d + j is
\* to_k's row d*h + j and its row 3*d*h + 2*d + j is to_v's row d*h + j.
C9_Interleave ==
    (pc = "done" /\ op.exc = "") =>
      LET H == pre[1].heads
          d == pre[2].out_features \div H
          w == heap[getattr(heap, 1, TO_QKV).val].weight
      IN  /\ w.shape = <<3 * H * d, pre[2].in_features>>
          /\ \A h \in 0..(H - 1), j \in 0..(d - 1) :
               /\ Row(w, 3 * d * h + j) = Row(pre[2].weight, d * h + j)
               /\ Row(w, 3 * d * h + d + j) = Row(pre[3].weight, d * h + j)
               /\ Row(w, 3 * d * h + 2 * d + j) = Row(pre[4].weight, d * h + j)

\* C9's case: a block of 2 heads of dimension 2 is fused
C9_Witness ==
    /\ pc = "done"
    /\ op.exc = ""
    /\ pre[1].heads = 2
    /\ pre[2].out_features = 4
    /\ pre[2].in_features = 2
    /\ getattr(heap, 1, TO_QKV).val # None

\* C4: when the flag is "1" before the re-wrap, the constructor of the
\* quantized class sees "0" and the flag is "1" again when the re-wrap ends,
\* whether the constructor returns or raises.
C4_ScopedFlag ==
    (pc = "done" /\ op.rewrapped /\ op.env_before = "1") =>
      /\ op.seen = "0"
      /\ env = "1"

----------------------------------------------------------------------------
\* search_modules.  match_fn is given as its table: tab[i] is "True" or
\* "False", or the exception match_fn raises on object i.

\* root.named_children(): the children that are not None, each object once
named_children(o) ==
    LET keep == {i \in 1..Len(o.kids) :
                   /\ o.kids[i][2] # None
                   /\ \A j \in 1..(i - 1) : o.kids[j][2] # o.kids[i][2]}
        order == Sorted(keep)
    IN  [i \in 1..Len(order) |-> o.kids[order[i]]]

\* result.update(other)
RECURSIVE dict_update(_, _)
dict_update(d, other) ==
    IF Len(other) = 0 THEN d
    ELSE dict_update(dict_set(d, other[1][1], other[1][2]), Tail(other))

child_name(name, child) == IF name # <<>> THEN name \o <<".">> \o child ELSE child

\* a matched node returned together with the matches below it
on_match_descend(name, root, below) == dict_update(<<<<name, root>>>>, below)

\* what search_modules returns for a matched node: the node alone, whatever
\* is below it
on_match(name, root, below) == <<<<name, root>>>>

RECURSIVE search_modules(_, _, _, _)
RECURSIVE search_children(_, _, _, _, _)
search_modules(h, root, tab, name) ==
    IF tab[root] \notin {"True", "False"} THEN [exc |-> tab[root], result |-> <<>>]
    ELSE LET below == search_children(h, named_children(h[root]), tab, name, <<>>)
         IN  IF tab[root] = "True"
             THEN [exc |-> "", result |-> on_match(name, root, below.result)]
             ELSE below

\* the loop over the children, result being the dict so far
search_children(h, children, tab, name, result) ==
    IF Len(children) = 0 THEN [exc |-> "", result |-> result]
    ELSE LET r == search_modules(h, children[1][2], tab,
                                 child_name(name, children[1][1]))
         IN  IF r.exc # "" THEN [exc |-> r.exc, result |-> <<>>]
             ELSE search_children(h, Tail(children), tab, name,
                                  dict_update(result, r.result))

InitSearch ==
    /\ heap \in {h \in Trees : WellFormed(h)}
    /\ pc = "idle"
    /\ \E M \in SUBSET (1..Len(heap)) :
         op = [tab |-> [i \in 1..Len(heap) |-> IF i \in M THEN "True" ELSE "False"],
               exc |-> "", result |-> <<>>]
    /\ pre = heap
    /\ calibrate_info = <<>>
    /\ env = "0"

Search ==
    /\ pc = "idle"
    /\ LET r == search_modules(heap, Root, op.tab, <<>>)
       IN  op' = [op EXCEPT !.exc = r.exc, !.result = r.result]
    /\ pc' = "done"
    /\ UNCHANGED <<heap, pre, calibrate_info, env>>

NextSearch == Search

SpecSearch == InitSearch /\ [][NextSearch]_vars

\* the objects below cur, at most d levels down: <<dotted path of child names,
\* object, the objects between cur and it>>
RECURSIVE Below(_, _, _)
Below(h, cur, d) ==
    IF d = 0 THEN {}
    ELSE UNION {
           LET kid == h[cur].kids[k][2]
               nm == h[cur].kids[k][1]
           IN  IF kid = None THEN {}
               ELSE {<<nm, kid, {}>>}
                    \cup {<<nm \o <<".">> \o r[1], r[2], r[3] \cup {kid}>>
                          : r \in Below(h, kid, d - 1)}
           : k \in 1..Len(h[cur].kids)}

Matching(tab) == {i \in 1..Len(tab) : tab[i] = "True"}

\* C8: search_modules returns exactly the objects that satisfy the predicate
\* and have no proper ancestor satisfying it, each under its dotted path of
\* child names, the root under the empty string.
C8_Search ==
    pc = "done" =>
      LET M == Matching(op.tab)
          found == {op.result[i] : i \in 1..Len(op.result)}
      IN  /\ op.exc = ""
          /\ Cardinality(found) = Len(op.result)
          /\ found = (IF Root \in M THEN {<<<<>>, Root>>} ELSE {})
                     \cup {<<r[1], r[2]>> : r \in {x \in Below(heap, Root, MaxNodes) :
                                x[2] \in M /\ Root \notin M /\ x[3] \cap M = {}}}

\* C8's case: the predicate matches a parent and its child, and only the
\* parent's path is returned
C8_Witness ==
    /\ pc = "done"
    /\ Matching(op.tab) = {2, 3}
    /\ \E r \in Below(heap, Root, MaxNodes) : r[2] = 3 /\ r[3] = {2}
    /\ Len(op.result) = 1
    /\ op.result[1][2] = 2

----------------------------------------------------------------------------
\* replace_module_with_quantizable_module.

\* _load_calibrate_info on a file given as its lines
RECURSIVE load_lines(_, _)
load_lines(info, lines) ==
    IF Len(lines) = 0 THEN [exc |-> "", info |-> info]
    ELSE LET r == load_line(info, lines[1])
         IN  IF r.exc # "" THEN [exc |-> r.exc, info |-> <<>>]
             ELSE load_lines(r.info, Tail(lines))

_load_calibrate_info(lines) == load_lines(<<>>, lines)

\* what _use_graph leaves in the flag
_use_graph == "0"

\* tensor.to(torch.int8) of integer elements: they wrap to 8 bits
to_int8(t) == [t EXCEPT !.data = [n \in 1..Len(t.data) |-> ((t.data[n] + 128) % 256) - 128]]

\* get_quantize_module(sub_mod, name, calibrate, fake_quant, static, nbits):
\* the quantized module the factory builds
get_quantize_module(sub_mod, id, name, calibrate, fake_quant, static, nbits, flag) ==
    [NewQuant(IF static THEN "StaticQuantLinearModule" ELSE "DynamicQuantLinearModule",
              sub_mod, nbits, calibrate, name, id, flag)
     EXCEPT !.fake_quant = fake_quant, !.static = static]

\* the tree after a failure of the factory, had the path been rebound first
after_factory_failure_bound(h, h_bound) == h_bound

\* the tree after a failure of the factory: the path is not rebound
after_factory_failure(h, h_bound) == h

\* one iteration of the loop over calibrate_info.items(); factory_raises says
\* whether get_quantize_module raises
quantize(h, sub_module_name, sub_calibrate_info, flag, factory_raises) ==
    LET r == get_sub_module(h, Root, sub_module_name)
        Fail(h1, exc) == [heap |-> h1, exc |-> exc, made |-> None]
    IN
    IF r.exc # "" THEN Fail(h, r.exc)
    ELSE IF r.val = None THEN Fail(h, "AttributeError")
    ELSE
    LET id == r.val
        h1 == IF h[id].cls = "ComfyLinear" THEN [h EXCEPT ![id].cls = "Linear"] ELSE h
        h2 == [h1 EXCEPT ![id].requires_grad = FALSE,
                         ![id].weight = to_int8(@),
                         ![id].dtype = "int8",
                         ![id].device = "cuda"]
        new == Len(h) + 1
        h3 == Append(h2, get_quantize_module(h2[id], id, sub_module_name,
                                             sub_calibrate_info, FALSE, FALSE, 8, flag))
        m == modify_sub_module(h3, Root, sub_module_name, new)
    IN
    IF h[id].cls \notin LinearLike THEN Fail(h1, "AttributeError")
    ELSE IF factory_raises THEN Fail(after_factory_failure(h2, m.heap), "FactoryError")
    ELSE IF m.exc # "" THEN Fail(h3, m.exc)
    ELSE [heap |-> m.heap, exc |-> "", made |-> new]

\* the fusion stage without its except clause
propagate(exc) == "raised"

\* the except clause around the fusion stage: where the call goes with an
\* exception of the stage
except_Exception(exc) == "returned"

Dot(path, name) == path \o <<".">> \o name

\* the fusion loop without its test
always_in_calibrate_info(info, k) == TRUE

\* the test of the fusion loop: f"{k}.to_q" in calibrate_info
in_calibrate_info(info, k) == dict_has(info, Dot(k, TO_Q))

\* match_func, as its table over the objects
match_func(h) ==
    [i \in 1..Len(h) |->
        IF h[i].cls = "CrossAttentionPytorch" THEN _can_use_flash_attn(h, i) ELSE "False"]

\* Inputs: a model with a linear layer x and a ModuleList m of two attention
\* blocks of one head, and a calibration file naming some of the projections.

KeyX == <<"x">>
KeyY == <<"y">>
KeyA == <<"m", ".", "0">>
KeyB == <<"m", ".", "1">>

BlockKinds == {"ok", "int8", "dim48", "bias", "k_none", "in_differs"}

Block(kind, base) ==
    LET out == IF kind = "dim48" THEN 48 ELSE 40
        dtype == IF kind = "int8" THEN "int8" ELSE "float16"
    IN  <<Attention(1, <<<<TO_Q, base + 1>>,
                         <<TO_K, IF kind = "k_none" THEN None ELSE base + 2>>,
                         <<TO_V, base + 3>>>>),
          Projection("Linear", 1, out, FALSE, dtype, 0),
          Projection("Linear", IF kind = "in_differs" THEN 2 ELSE 1, out, FALSE, dtype, 40),
          Projection("Linear", 1, out, kind = "bias", dtype, 90)>>

Model(xcls, kindA, kindB) ==
    <<Obj("Module", <<<<KeyX, 2>>, <<<<"m">>, 3>>>>),
      Projection(xcls, 2, 2, TRUE, "float16", 200),
      Obj("ModuleList", <<<<<<"0">>, 4>>, <<<<"1">>, 8>>>>)>>
    \o Block(kindA, 4) \o Block(kindB, 8)

RECURSIVE Ones(_)
Ones(n) == IF n = 1 THEN <<"1">> ELSE <<"1", ",">> \o Ones(n - 1)

Line(key, channels) ==
    key \o <<" ", "1", ".", "5", " ", "8", " ">> \o Ones(channels) \o <<"\n">>

Channels(kind) == IF kind = "dim48" THEN 48 ELSE 40

BlockLines(sel, key, kind) ==
    IF sel = "none" THEN <<>>
    ELSE IF sel = "q" THEN <<Line(Dot(key, TO_Q), Channels(kind))>>
    ELSE <<Line(Dot(key, TO_Q), Channels(kind)), Line(Dot(key, TO_K), Channels(kind)),
           Line(Dot(key, TO_V), Channels(kind))>>

RECURSIVE Reverse(_)
Reverse(q) == IF Len(q) = 0 THEN <<>> ELSE Reverse(Tail(q)) \o <<q[1]>>

File(with_x, selA, with_y, selB, kindA, kindB, reversed, bad_line) ==
    LET lines == (IF with_x THEN <<Line(KeyX, 2)>> ELSE <<>>)
                 \o BlockLines(selA, KeyA, kindA)
                 \o (IF with_y THEN <<Line(KeyY, 1)>> ELSE <<>>)
                 \o BlockLines(selB, KeyB, kindB)
    IN  (IF reversed THEN Reverse(lines) ELSE lines)
        \o (IF bad_line THEN <<<<"x", " ", "1", " ", "8", "\n">>>> ELSE <<>>)

NoCall == [file |-> <<>>, i |-> 1, made |-> <<>>, exc |-> "", caught |-> "",
           fusion_entered |-> FALSE, matches |-> <<>>, k |-> 1]

Init ==
    /\ \E kindA \in BlockKinds, kindB \in {"ok", "dim48"} :
         /\ heap = Model("ComfyLinear", kindA, kindB)
         /\ \E with_x, with_y, reversed, bad_line \in BOOLEAN,
               selA, selB \in {"none", "q", "qkv"} :
              op = [NoCall EXCEPT !.file = File(with_x, selA, with_y, selB, kindA,
                                                kindB, reversed, bad_line)]
    /\ pc = "start"
    /\ pre = [entry |-> heap, quant |-> <<>>]
    /\ calibrate_info = <<>>
    /\ env = "1"

\* _use_graph() and calibrate_info = _load_calibrate_info(calibrate_info_path)
Begin ==
    /\ pc = "start"
    /\ env' = _use_graph
    /\ LET r == _load_calibrate_info(op.file)
       IN  /\ calibrate_info' = r.info
           /\ op' = [op EXCEPT !.exc = r.exc]
           /\ pc' = IF r.exc # "" THEN "raised" ELSE "quant"
    /\ UNCHANGED <<heap, pre>>

\* one iteration of the quantization loop
QuantStep(factory_raises) ==
    /\ pc = "quant"
    /\ op.i <= Len(calibrate_info)
    /\ LET item == calibrate_info[op.i]
           r == quantize(heap, item[1], item[2], env, factory_raises)
       IN  /\ heap' = r.heap
           /\ IF r.exc # ""
              THEN /\ op' = [op EXCEPT !.exc = r.exc]
                   /\ pc' = "raised"
              ELSE /\ op' = [op EXCEPT !.i = @ + 1, !.made = Append(@, r.made)]
                   /\ pc' = "quant"
    /\ UNCHANGED <<pre, calibrate_info, env>>

\* the loop is over: the try block is entered, the attention class imported and
\* the tree searched
FuseSearch(import_raises) ==
    /\ pc = "quant"
    /\ op.i > Len(calibrate_info)
    /\ pre' = [pre EXCEPT !.quant = heap]
    /\ LET r == search_modules(heap, Root, match_func(heap), <<>>)
           exc == IF import_raises THEN "ImportError" ELSE r.exc
       IN  /\ op' = [op EXCEPT !.fusion_entered = TRUE, !.caught = exc,
                               !.matches = IF exc = "" THEN r.result ELSE <<>>]
           /\ pc' = IF exc # "" THEN except_Exception(exc) ELSE "fusing"
    /\ UNCHANGED <<heap, calibrate_info, env>>

\* one iteration of the loop over can_rewrite_modules.items()
FuseStep(ctor_raises) ==
    /\ pc = "fusing"
    /\ op.k <= Len(op.matches)
    /\ LET k == op.matches[op.k][1]
           v == op.matches[op.k][2]
       IN  IF in_calibrate_info(calibrate_info, k)
           THEN LET r == _rewrite_attention(heap, v, env, ctor_raises)
                IN  /\ heap' = r.heap
                    /\ env' = r.env
                    /\ op' = [op EXCEPT !.k = @ + 1, !.caught = r.exc]
                    /\ pc' = IF r.exc # "" THEN except_Exception(r.exc) ELSE "fusing"
           ELSE /\ op' = [op EXCEPT !.k = @ + 1]
                /\ pc' = "fusing"
                /\ UNCHANGED <<heap, env>>
    /\ UNCHANGED <<pre, calibrate_info>>

\* the loop over the matches is over: the call returns
Return ==
    /\ pc = "fusing"
    /\ op.k > Len(op.matches)
    /\ pc' = "returned"
    /\ UNCHANGED <<heap, op, pre, calibrate_info, env>>

Next ==
    \/ Begin
    \/ \E factory_raises \in BOOLEAN : QuantStep(factory_raises)
    \/ \E import_raises \in BOOLEAN : FuseSearch(import_raises)
    \/ \E ctor_raises \in BOOLEAN : FuseStep(ctor_raises)
    \/ Return

Spec == Init /\ [][Next]_vars

----------------------------------------------------------------------------
\* The claims about the pass.

Keys == [i \in 1..Len(calibrate_info) |-> calibrate_info[i][1]]

LoopDone == pc = "quant" /\ op.i > Len(calibrate_info)

\* C2: when the quantization loop has run to completion, the object at every
\* path of the calibration mapping is the one the factory returned for that
\* path (made with that path as name, that path's record, fake_quant=False,
\* static=False, 8 bits), and the object at every other path of the tree is
\* the object that was there before the pass.
C2_Quantized ==
    LoopDone =>
      /\ \A i \in 1..Len(calibrate_info) :
           LET r == get_sub_module(heap, Root, Keys[i])
           IN  /\ r = Ok(op.made[i])
               /\ op.made[i] > Len(pre.entry)
               /\ heap[r.val].cls \in QuantClasses
               /\ heap[r.val].name = Keys[i]
               /\ heap[r.val].calibrate = calibrate_info[i][2]
               /\ heap[r.val].fake_quant = FALSE
               /\ heap[r.val].static = FALSE
               /\ heap[r.val].nbits = 8
      /\ \A r \in ValidPaths(pre.entry) :
           (\A i \in 1..Len(Keys) : Keys[i] # r[1])
             => get_sub_module(heap, Root, r[1]) = Ok(r[2])

\* C2's case: x and the three projections of block 0 are quantized
C2_Witness ==
    /\ LoopDone
    /\ Len(calibrate_info) = 4
    /\ Keys[1] = KeyX
    /\ Keys[4] = Dot(KeyA, TO_V)
    /\ heap[get_sub_module(heap, Root, KeyX).val].cls = "DynamicQuantLinearModule"

\* C3: when the i-th path fails, the exception reaches the caller, the paths
\* before i stay bound to their quantized replacements, no path from i on is
\* rebound, and the fusion stage is not entered.
C3_FailFast ==
    (pc = "raised") =>
      /\ op.exc # ""
      /\ ~op.fusion_entered
      /\ \A b \in 1..Len(heap) : ~HasKid(heap[b], TO_QKV)
      /\ \A j \in 1..Len(calibrate_info) :
           IF j < op.i
           THEN /\ get_sub_module(heap, Root, Keys[j]) = Ok(op.made[j])
                /\ op.made[j] > Len(pre.entry)
                /\ heap[op.made[j]].cls \in QuantClasses
           ELSE get_sub_module(heap, Root, Keys[j])
                  = get_sub_module(pre.entry, Root, Keys[j])

\* C3's case: the factory fails on the third of at least four paths
C3_Witness ==
    /\ pc = "raised"
    /\ op.exc = "FactoryError"
    /\ op.i = 3
    /\ Len(calibrate_info) >= 4

\* C5: once the quantization loop is over, nothing that goes wrong in the
\* fusion stage reaches the caller: the call returns.
C5_Swallowed ==
    op.fusion_entered => (pc \in {"fusing", "returned"} /\ op.exc = "")

\* C5's case: the constructor raised while a block was being fused, and the
\* call has returned
C5_Witness ==
    /\ pc = "returned"
    /\ op.caught = "ConstructorError"

\* the attention blocks of a tree: <<path, object, objects above>>
AttnBlocks(h) == {r \in Below(h, Root, Len(h)) : h[r[2]].cls = "CrossAttentionPytorch"}

\* fusable, as the design states it: head dimension 40 or 64, key and value
\* projections present, no bias, one in_features, one dtype
Fusable(h, b) ==
    LET q == getattr(h, b, TO_Q).val
        k == getattr(h, b, TO_K).val
        v == getattr(h, b, TO_V).val
    IN  /\ k # None /\ v # None
        /\ h[q].out_features \div h[b].heads \in {40, 64}
        /\ ~h[q].has_bias /\ ~h[k].has_bias /\ ~h[v].has_bias
        /\ h[q].in_features = h[k].in_features /\ h[q].in_features = h[v].in_features
        /\ h[q].dtype = h[k].dtype /\ h[q].dtype = h[v].dtype

\* the fusion stage changed block b or one of its projections
Touched(b) ==
    \/ heap[b] # pre.quant[b]
    \/ \E i \in 1..Len(pre.quant[b].kids) :
         LET kid == pre.quant[b].kids[i][2]
         IN  kid # None /\ heap[kid] # pre.quant[kid]

\* C6: the fusion stage changes an attention block only if the block is
\* fusable and '<path>.to_q' is in the calibration mapping; the other blocks
\* stay as they were, and the blocks after them are still fused.
C6_OnlyFusable ==
    op.fusion_entered =>
      \A r \in AttnBlocks(pre.quant) :
        LET may == /\ Fusable(pre.quant, r[2])
                   /\ dict_has(calibrate_info, Dot(r[1], TO_Q))
        IN  /\ Touched(r[2]) => may
            /\ (pc = "returned" /\ op.caught = "" /\ may)
                 => /\ HasKid(heap[r[2]], TO_QKV)
                    /\ heap[r[2]].scale # <<>>

\* C6's case: block 0 is skipped and left alone, block 1 after it is fused
C6_Witness ==
    /\ pc = "returned"
    /\ op.caught = ""
    /\ ~Touched(4)
    /\ Len(op.matches) = 2
    /\ HasKid(heap[8], TO_QKV)

====
